---- MODULE Spec2Model ----
(***************************************************************************)
(* A model of vpcctl.py (class VPCManager): the persisted VPC records      *)
(* under /tmp/vpc_configs, the kernel objects the issued `ip`/`iptables`   *)
(* commands act on, and one action per VPCManager operation.               *)
(*                                                                         *)
(* Text (a CIDR, an address) is a sequence of one-character strings, so    *)
(* that str.split, slicing and int() are computed as Python computes them. *)
(***************************************************************************)
EXTENDS Integers, Sequences, FiniteSets, TLC

(***************************************************************************)
(* Python text primitives                                                  *)
(***************************************************************************)
Digits == <<"0", "1", "2", "3", "4", "5", "6", "7", "8", "9">>

IsDigit(ch) == \E i \in 1..10 : Digits[i] = ch

DigitVal(ch) == (CHOOSE i \in 1..10 : Digits[i] = ch) - 1

IsSpace(ch) == ch \in {" ", "\t"}

\* str.split(sep): the pieces of txt between the occurrences of sep
\* (always at least one piece, possibly empty).
RECURSIVE SplitFrom(_, _, _, _)
SplitFrom(txt, sep, i, cur) ==
    IF i > Len(txt) THEN <<cur>>
    ELSE IF txt[i] = sep THEN <<cur>> \o SplitFrom(txt, sep, i + 1, <<>>)
    ELSE SplitFrom(txt, sep, i + 1, Append(cur, txt[i]))

Split(txt, sep) == SplitFrom(txt, sep, 1, <<>>)

\* sep.join(toks)
RECURSIVE Join(_, _)
Join(toks, sep) ==
    IF Len(toks) = 0 THEN <<>>
    ELSE IF Len(toks) = 1 THEN toks[1]
    ELSE toks[1] \o <<sep>> \o Join(Tail(toks), sep)

\* str.strip() as int() applies it: leading and trailing whitespace removed.
RECURSIVE LStrip(_)
LStrip(txt) ==
    IF txt # <<>> /\ IsSpace(Head(txt)) THEN LStrip(Tail(txt)) ELSE txt

RECURSIVE RStrip(_)
RStrip(txt) ==
    IF txt # <<>> /\ IsSpace(txt[Len(txt)])
    THEN RStrip(SubSeq(txt, 1, Len(txt) - 1)) ELSE txt

Strip(txt) == RStrip(LStrip(txt))

\* The digits part of an int() literal: digits, with single underscores
\* allowed between two digits.
IntBodyOk(b) ==
    /\ b # <<>>
    /\ \A i \in 1..Len(b) :
          \/ IsDigit(b[i])
          \/ /\ b[i] = "_"
             /\ i > 1 /\ i < Len(b)
             /\ IsDigit(b[i - 1]) /\ IsDigit(b[i + 1])

RECURSIVE DecValue(_, _)
DecValue(b, acc) ==
    IF b = <<>> THEN acc
    ELSE IF Head(b) = "_" THEN DecValue(Tail(b), acc)
    ELSE DecValue(Tail(b), 10 * acc + DigitVal(Head(b)))

\* int(tok): surrounding whitespace is stripped, one sign is accepted, then
\* the digits; anything else raises ValueError (ok = FALSE).
PyInt(tok) ==
    LET t == Strip(tok)
        signed == t # <<>> /\ Head(t) \in {"+", "-"}
        body == IF signed THEN Tail(t) ELSE t
    IN  IF ~IntBodyOk(body) THEN [ok |-> FALSE, val |-> 0]
        ELSE IF signed /\ Head(t) = "-"
             THEN [ok |-> TRUE, val |-> 0 - DecValue(body, 0)]
        ELSE [ok |-> TRUE, val |-> DecValue(body, 0)]

MaxOctet == 255
MaxMask == 32
OctetCount == 4

\* VPCManager.validate_cidr: any exception (a failed unpacking of the split,
\* a ValueError of int) is caught and gives False.
validate_cidr(cidr) ==
    LET halves == Split(cidr, "/")
    IN  IF Len(halves) # 2 THEN FALSE
        ELSE LET ip == halves[1]
                 mask == PyInt(halves[2])
                 parts == Split(ip, ".")
             IN  IF ~mask.ok THEN FALSE
                 ELSE IF Len(parts) # OctetCount THEN FALSE
                 ELSE IF \E i \in 1..Len(parts) : ~PyInt(parts[i]).ok
                      THEN FALSE
                 ELSE IF ~(\A i \in 1..Len(parts) :
                              /\ 0 <= PyInt(parts[i]).val
                              /\ PyInt(parts[i]).val <= MaxOctet)
                      THEN FALSE
                 ELSE IF ~(0 <= mask.val /\ mask.val <= MaxMask) THEN FALSE
                 ELSE TRUE

\* create_subnet, line 129: cidr.split('/')[0][:-1] + "1"
gateway_ip(cidr) ==
    LET ip == Split(cidr, "/")[1]
    IN  (IF ip = <<>> THEN <<>> ELSE SubSeq(ip, 1, Len(ip) - 1)) \o <<"1">>

(***************************************************************************)
(* Names and persisted records                                             *)
(***************************************************************************)
VPCs == {"a", "b"}
Subnets == {"web", "db"}
Types == {"public", "private"}

\* f"br-{name}", f"ns-{vpc_name}-{subnet_name}", f"veth-{subnet_name}-host",
\* f"veth-{subnet_name}-ns": a formatted name is the tuple of its parts.
bridge_name(name) == <<"br", name>>
ns_name(vpc_name, subnet_name) == <<"ns", vpc_name, subnet_name>>
veth_host(subnet_name) == <<"veth", subnet_name, "host">>
veth_ns(subnet_name) == <<"veth", subnet_name, "ns">>

Put(f, k, v) == [x \in DOMAIN f \cup {k} |-> IF x = k THEN v ELSE f[x]]
Remove(f, k) == [x \in DOMAIN f \ {k} |-> f[x]]
Empty == [x \in {} |-> x]

(***************************************************************************)
(* The kernel objects the commands act on.                                 *)
(*   bridges : bridge name -> [up]                                         *)
(*   netns   : namespace name -> [route, policy, rules]                    *)
(*   veths   : host-end name -> [peer, loc, master, addrs]; the peer end   *)
(*             is in the host namespace (loc = Host) or in a namespace     *)
(*   forward : net.ipv4.ip_forward                                         *)
(*   nat     : the host's appended iptables rules, in order                *)
(***************************************************************************)
Host == <<"host">>
NoName == <<>>

Cmd(c, a) == [c |-> c, a |-> a]

InHost(K, n) ==
    \/ n \in DOMAIN K.bridges
    \/ n \in DOMAIN K.veths
    \/ \E h \in DOMAIN K.veths : K.veths[h].peer = n /\ K.veths[h].loc = Host

InNs(K, ns, n) ==
    \E h \in DOMAIN K.veths : K.veths[h].peer = n /\ K.veths[h].loc = ns

PairOf(K, loc, n) ==
    CHOOSE h \in DOMAIN K.veths : K.veths[h].peer = n /\ K.veths[h].loc = loc

\* What `ip` accepts as an IPv4 address and as a prefix: plain decimal tokens.
PlainDecimal(tok) == tok # <<>> /\ \A i \in 1..Len(tok) : IsDigit(tok[i])

PlainIp(ip) ==
    LET parts == Split(ip, ".")
    IN  /\ Len(parts) = OctetCount
        /\ \A i \in 1..Len(parts) :
              PlainDecimal(parts[i]) /\ DecValue(parts[i], 0) <= MaxOctet

PlainCidr(cidr) ==
    LET halves == Split(cidr, "/")
    IN  /\ Len(halves) = 2
        /\ PlainIp(halves[1])
        /\ PlainDecimal(halves[2]) /\ DecValue(halves[2], 0) <= MaxMask

FreshNs == [route |-> NoName,
            policy |-> [INPUT |-> "ACCEPT", FORWARD |-> "ACCEPT", OUTPUT |-> "ACCEPT"],
            rules |-> <<>>]

Ports == 0..65535

\* The exit status (ok) and the effect (k) of one command on the kernel K.
\* A command fails when the object it names is missing or the object it
\* makes is already there, and when the host refuses it (K.refused: a busy
\* device, an exhausted table, a missing capability).  Of the links only a bridge's up/down state is
\* kept; a default route is accepted when the namespace has none yet and
\* one of its interfaces holds an address.
Exec(K, cmd) ==
    LET a == cmd.a
        fail == [ok |-> FALSE, k |-> K]
        pass == [ok |-> TRUE, k |-> K]
    IN  CASE cmd \in K.refused -> fail
          [] cmd.c = "ip link show" ->
               IF InHost(K, a[1]) THEN pass ELSE fail
          [] cmd.c = "ip link add type bridge" ->
               IF InHost(K, a[1]) THEN fail
               ELSE [ok |-> TRUE,
                     k |-> [K EXCEPT !.bridges = Put(@, a[1], [up |-> FALSE])]]
          [] cmd.c = "ip link set up" ->
               IF a[1] \in DOMAIN K.bridges
               THEN [ok |-> TRUE, k |-> [K EXCEPT !.bridges[a[1]].up = TRUE]]
               ELSE IF InHost(K, a[1]) THEN pass ELSE fail
          [] cmd.c = "ip link set down" ->
               IF a[1] \in DOMAIN K.bridges
               THEN [ok |-> TRUE, k |-> [K EXCEPT !.bridges[a[1]].up = FALSE]]
               ELSE IF InHost(K, a[1]) THEN pass ELSE fail
          [] cmd.c = "ip link delete type bridge" ->
               IF a[1] \notin DOMAIN K.bridges THEN fail
               ELSE [ok |-> TRUE,
                     k |-> [K EXCEPT
                              !.bridges = Remove(@, a[1]),
                              !.veths = [h \in DOMAIN @ |->
                                           IF @[h].master = a[1]
                                           THEN [@[h] EXCEPT !.master = NoName]
                                           ELSE @[h]]]]
          [] cmd.c = "ip netns list | grep -q" ->
               IF a[1] \in DOMAIN K.netns THEN pass ELSE fail
          [] cmd.c = "ip netns add" ->
               IF a[1] \in DOMAIN K.netns THEN fail
               ELSE [ok |-> TRUE, k |-> [K EXCEPT !.netns = Put(@, a[1], FreshNs)]]
          [] cmd.c = "ip netns delete" ->
               IF a[1] \notin DOMAIN K.netns THEN fail
               ELSE [ok |-> TRUE,
                     k |-> [K EXCEPT
                              !.netns = Remove(@, a[1]),
                              !.veths = [h \in {x \in DOMAIN @ : @[x].loc # a[1]}
                                           |-> @[h]]]]
          [] cmd.c = "ip link add type veth peer name" ->
               IF InHost(K, a[1]) \/ InHost(K, a[2]) THEN fail
               ELSE [ok |-> TRUE,
                     k |-> [K EXCEPT !.veths =
                              Put(@, a[1], [peer |-> a[2], loc |-> Host,
                                            master |-> NoName, addrs |-> {}])]]
          [] cmd.c = "ip link set netns" ->
               IF /\ InNs(K, Host, a[1])
                  /\ a[2] \in DOMAIN K.netns
                  /\ ~InNs(K, a[2], a[1])
               THEN [ok |-> TRUE,
                     k |-> [K EXCEPT !.veths[PairOf(K, Host, a[1])].loc = a[2]]]
               ELSE fail
          [] cmd.c = "ip link set master" ->
               IF a[1] \in DOMAIN K.veths /\ a[2] \in DOMAIN K.bridges
               THEN [ok |-> TRUE, k |-> [K EXCEPT !.veths[a[1]].master = a[2]]]
               ELSE fail
          [] cmd.c = "ip netns exec ip link set lo up" ->
               IF a[1] \in DOMAIN K.netns THEN pass ELSE fail
          [] cmd.c = "ip netns exec ip link set up" ->
               IF a[1] \in DOMAIN K.netns /\ InNs(K, a[1], a[2]) THEN pass ELSE fail
          [] cmd.c = "ip netns exec ip addr add dev" ->
               IF /\ a[1] \in DOMAIN K.netns
                  /\ InNs(K, a[1], a[3])
                  /\ PlainCidr(a[2])
                  /\ a[2] \notin K.veths[PairOf(K, a[1], a[3])].addrs
               THEN [ok |-> TRUE,
                     k |-> [K EXCEPT !.veths[PairOf(K, a[1], a[3])].addrs =
                                        @ \cup {a[2]}]]
               ELSE fail
          [] cmd.c = "ip netns exec ip route add default via" ->
               IF /\ a[1] \in DOMAIN K.netns
                  /\ K.netns[a[1]].route = NoName
                  /\ PlainIp(a[2])
                  /\ \E h \in DOMAIN K.veths :
                        K.veths[h].loc = a[1] /\ K.veths[h].addrs # {}
               THEN [ok |-> TRUE, k |-> [K EXCEPT !.netns[a[1]].route = a[2]]]
               ELSE fail
          [] cmd.c = "sysctl -w net.ipv4.ip_forward=1" ->
               [ok |-> TRUE, k |-> [K EXCEPT !.forward = TRUE]]
          [] cmd.c \in {"iptables -t nat -A POSTROUTING -j MASQUERADE",
                        "iptables -A FORWARD -j ACCEPT",
                        "iptables -A FORWARD -m state -j ACCEPT"} ->
               [ok |-> TRUE, k |-> [K EXCEPT !.nat = Append(@, cmd)]]
          [] cmd.c = "ip netns exec iptables -F" ->
               IF a[1] \notin DOMAIN K.netns THEN fail
               ELSE [ok |-> TRUE, k |-> [K EXCEPT !.netns[a[1]].rules = <<>>]]
          [] cmd.c = "ip netns exec iptables -P" ->
               IF a[1] \notin DOMAIN K.netns THEN fail
               ELSE [ok |-> TRUE,
                     k |-> [K EXCEPT !.netns[a[1]].policy[a[2][1]] = a[3][1]]]
          [] cmd.c = "ip netns exec iptables -A INPUT" ->
               IF a[1] \notin DOMAIN K.netns THEN fail
               ELSE [ok |-> TRUE,
                     k |-> [K EXCEPT !.netns[a[1]].rules = Append(@, SubSeq(a, 2, Len(a)))]]
          [] cmd.c = "ip netns exec iptables -A INPUT --dport" ->
               IF /\ a[1] \in DOMAIN K.netns
                  /\ a[2] \in {<<"tcp">>, <<"udp">>}
                  /\ PlainDecimal(a[3]) /\ DecValue(a[3], 0) \in Ports
               THEN [ok |-> TRUE,
                     k |-> [K EXCEPT !.netns[a[1]].rules = Append(@, SubSeq(a, 2, Len(a)))]]
               ELSE fail
          [] cmd.c = "ip netns exec" ->
               IF a[1] \in DOMAIN K.netns /\ a[2] = <<"true">> THEN pass ELSE fail
          [] OTHER -> fail

None == "None"
Completed == "CompletedProcess"

\* VPCManager.run_cmd: subprocess.run raises CalledProcessError only when
\* check is set and the exit status is not 0; run_cmd then returns None.
\* In every other case it returns the CompletedProcess object.
run_cmd(K, cmd, check) ==
    LET r == Exec(K, cmd)
    IN  [k |-> r.k,
         ok |-> r.ok,
         ret |-> IF check /\ ~r.ok THEN None ELSE Completed]

\* Python truth value of what run_cmd returns: None is false, a
\* CompletedProcess object (it defines neither __bool__ nor __len__) is true.
Truthy(ret) == ret # None

(***************************************************************************)
(* A JSON object keeps the insertion order of its keys (Python dict):      *)
(* a sequence of [key, val] entries with distinct keys.                    *)
(***************************************************************************)
DictKeys(d) == [i \in 1..Len(d) |-> d[i].key]
DictHas(d, key) == \E i \in 1..Len(d) : d[i].key = key
DictGet(d, key) == d[CHOOSE i \in 1..Len(d) : d[i].key = key].val
DictSet(d, key, val) ==
    IF DictHas(d, key)
    THEN [i \in 1..Len(d) |-> IF d[i].key = key THEN [key |-> key, val |-> val] ELSE d[i]]
    ELSE Append(d, [key |-> key, val |-> val])
DictDel(d, key) == SelectSeq(d, LAMBDA e : e.key # key)

StoreWrite(name) == Cmd("store.write", <<<<name>>>>)
StoreUnlink(name) == Cmd("store.unlink", <<<<name>>>>)

\* What an operation leaves: the store, the kernel, the value returned and
\* the commands and store writes it issued, in order.
Outcome(S, K, result, trace) ==
    [store |-> S, k |-> K, result |-> result, trace |-> trace]

\* for cmd in cmds: self.run_cmd(cmd)
RECURSIVE RunAll(_, _, _)
RunAll(K, cmds, check) ==
    IF cmds = <<>> THEN K
    ELSE RunAll(run_cmd(K, Head(cmds), check).k, Tail(cmds), check)

(***************************************************************************)
(* VPCManager.create_vpc                                                   *)
(***************************************************************************)
\* create_vpc with the bridge made without asking whether it exists.
create_vpc_always_adds(S, K, name, cidr) ==
    IF ~validate_cidr(cidr) THEN Outcome(S, K, FALSE, <<>>)
    ELSE
      LET bridge == bridge_name(name)
          made == <<Cmd("ip link add type bridge", <<bridge>>),
                    Cmd("ip link set up", <<bridge>>)>>
          vpc_config == [name |-> name, cidr |-> cidr, bridge |-> bridge,
                         subnets |-> <<>>]
      IN  Outcome(Put(S, name, vpc_config), RunAll(K, made, TRUE), TRUE,
                  made \o <<StoreWrite(name)>>)

\* create_vpc with the CIDR validated only after the record is written.
create_vpc_unvalidated(S, K, name, cidr) ==
    LET bridge == bridge_name(name)
        show == Cmd("ip link show", <<bridge>>)
        made == <<Cmd("ip link add type bridge", <<bridge>>),
                  Cmd("ip link set up", <<bridge>>)>>
        r == run_cmd(K, show, FALSE)
        create == ~Truthy(r.ret)
        K2 == IF create THEN RunAll(r.k, made, TRUE) ELSE r.k
        vpc_config == [name |-> name, cidr |-> cidr, bridge |-> bridge,
                       subnets |-> <<>>]
    IN  Outcome(Put(S, name, vpc_config), K2, validate_cidr(cidr),
                <<show>> \o (IF create THEN made ELSE <<>>)
                         \o <<StoreWrite(name)>>)

\* create_vpc taking over the subnets of the record that is there.
create_vpc_keeps_subnets(S, K, name, cidr) ==
    IF ~validate_cidr(cidr) THEN Outcome(S, K, FALSE, <<>>)
    ELSE
      LET bridge == bridge_name(name)
          show == Cmd("ip link show", <<bridge>>)
          made == <<Cmd("ip link add type bridge", <<bridge>>),
                    Cmd("ip link set up", <<bridge>>)>>
          r == run_cmd(K, show, FALSE)
          create == ~Truthy(r.ret)
          K2 == IF create THEN RunAll(r.k, made, TRUE) ELSE r.k
          vpc_config == [name |-> name, cidr |-> cidr, bridge |-> bridge,
                         subnets |-> IF name \in DOMAIN S THEN S[name].subnets
                                     ELSE <<>>]
      IN  Outcome(Put(S, name, vpc_config), K2, TRUE,
                  <<show>> \o (IF create THEN made ELSE <<>>)
                           \o <<StoreWrite(name)>>)

create_vpc(S, K, name, cidr) ==
    IF ~validate_cidr(cidr) THEN Outcome(S, K, FALSE, <<>>)
    ELSE
      LET bridge == bridge_name(name)
          show == Cmd("ip link show", <<bridge>>)
          made == <<Cmd("ip link add type bridge", <<bridge>>),
                    Cmd("ip link set up", <<bridge>>)>>
          r == run_cmd(K, show, FALSE)
          create == ~Truthy(r.ret)
          K2 == IF create THEN RunAll(r.k, made, TRUE) ELSE r.k
          vpc_config == [name |-> name, cidr |-> cidr, bridge |-> bridge,
                         subnets |-> <<>>]
      IN  Outcome(Put(S, name, vpc_config), K2, TRUE,
                  <<show>> \o (IF create THEN made ELSE <<>>)
                           \o <<StoreWrite(name)>>)

(***************************************************************************)
(* VPCManager.delete_subnet                                                *)
(***************************************************************************)
delete_subnet(S, K, vpc_name, subnet_name) ==
    IF vpc_name \notin DOMAIN S THEN Outcome(S, K, FALSE, <<>>)
    ELSE IF ~DictHas(S[vpc_name].subnets, subnet_name)
         THEN Outcome(S, K, FALSE, <<>>)
    ELSE
      LET config == S[vpc_name]
          subnet_info == DictGet(config.subnets, subnet_name)
          del == Cmd("ip netns delete", <<subnet_info.namespace>>)
          r == run_cmd(K, del, FALSE)
          config2 == [config EXCEPT !.subnets = DictDel(@, subnet_name)]
      IN  Outcome(Put(S, vpc_name, config2), r.k, TRUE,
                  <<del, StoreWrite(vpc_name)>>)

(***************************************************************************)
(* VPCManager.delete_vpc                                                   *)
(***************************************************************************)
\* for subnet_name in list(config.get("subnets", {}).keys()):
\*     self.delete_subnet(name, subnet_name)
RECURSIVE delete_subnets(_, _, _, _, _)
delete_subnets(S, K, name, keys, trace) ==
    IF keys = <<>> THEN Outcome(S, K, TRUE, trace)
    ELSE LET o == delete_subnet(S, K, name, Head(keys))
         IN  delete_subnets(o.store, o.k, name, Tail(keys), trace \o o.trace)

\* delete_vpc giving up, the record kept, at the first command that fails.
delete_vpc_abort_on_failure(S, K, name) ==
    IF name \notin DOMAIN S THEN Outcome(S, K, FALSE, <<>>)
    ELSE
      LET config == S[name]
          subs == delete_subnets(S, K, name, DictKeys(config.subnets), <<>>)
          bridge == <<Cmd("ip link set down", <<config.bridge>>),
                      Cmd("ip link delete type bridge", <<config.bridge>>)>>
          after == RunAll(subs.k, bridge, FALSE)
          clean == /\ config.bridge \notin DOMAIN after.bridges
                   /\ \A i \in 1..Len(config.subnets) :
                         config.subnets[i].val.namespace \notin DOMAIN after.netns
      IN  IF clean
          THEN Outcome(Remove(subs.store, name), after, TRUE,
                       subs.trace \o bridge \o <<StoreUnlink(name)>>)
          ELSE Outcome(subs.store, after, FALSE, subs.trace \o bridge)

\* delete_vpc with the bridge removed before the subnets.
delete_vpc_bridge_first(S, K, name) ==
    IF name \notin DOMAIN S THEN Outcome(S, K, FALSE, <<>>)
    ELSE
      LET config == S[name]
          bridge == <<Cmd("ip link set down", <<config.bridge>>),
                      Cmd("ip link delete type bridge", <<config.bridge>>)>>
          subs == delete_subnets(S, RunAll(K, bridge, FALSE), name,
                                 DictKeys(config.subnets), <<>>)
      IN  Outcome(Remove(subs.store, name), subs.k, TRUE,
                  bridge \o subs.trace \o <<StoreUnlink(name)>>)

delete_vpc(S, K, name) ==
    IF name \notin DOMAIN S THEN Outcome(S, K, FALSE, <<>>)
    ELSE
      LET config == S[name]
          subs == delete_subnets(S, K, name, DictKeys(config.subnets), <<>>)
          bridge == <<Cmd("ip link set down", <<config.bridge>>),
                      Cmd("ip link delete type bridge", <<config.bridge>>)>>
      IN  Outcome(Remove(subs.store, name), RunAll(subs.k, bridge, FALSE), TRUE,
                  subs.trace \o bridge \o <<StoreUnlink(name)>>)

(***************************************************************************)
(* VPCManager.create_subnet                                                *)
(***************************************************************************)
\* The entry with the type argument dropped for the default.
subnet_entry_default_type(cidr, subnet_type, ns, vh, vn) ==
    [cidr |-> cidr, type |-> "private", namespace |-> ns,
     veth_host |-> vh, veth_ns |-> vn]

\* config["subnets"][subnet_name] = {...}
subnet_entry(cidr, subnet_type, ns, vh, vn) ==
    [cidr |-> cidr, type |-> subnet_type, namespace |-> ns,
     veth_host |-> vh, veth_ns |-> vn]

\* create_subnet giving up, nothing written, at the first command that fails.
create_subnet_abort_on_failure(S, K, vpc_name, subnet_name, cidr, subnet_type) ==
    IF vpc_name \notin DOMAIN S THEN Outcome(S, K, FALSE, <<>>)
    ELSE
      LET config == S[vpc_name]
          ns == ns_name(vpc_name, subnet_name)
          vh == veth_host(subnet_name)
          vn == veth_ns(subnet_name)
          list == Cmd("ip netns list | grep -q", <<ns>>)
          rest == <<Cmd("ip link add type veth peer name", <<vh, vn>>),
                    Cmd("ip link set netns", <<vn, ns>>),
                    Cmd("ip link set master", <<vh, config.bridge>>),
                    Cmd("ip link set up", <<vh>>),
                    Cmd("ip netns exec ip link set lo up", <<ns>>),
                    Cmd("ip netns exec ip link set up", <<ns, vn>>),
                    Cmd("ip netns exec ip addr add dev", <<ns, cidr, vn>>),
                    Cmd("ip netns exec ip route add default via",
                        <<ns, gateway_ip(cidr)>>)>>
          oks == [i \in 1..Len(rest) |->
                    run_cmd(RunAll(K, SubSeq(rest, 1, i - 1), TRUE), rest[i], TRUE).ok]
          bad == {i \in 1..Len(rest) : ~oks[i]}
          upto == IF bad = {} THEN Len(rest)
                  ELSE CHOOSE i \in bad : \A j \in bad : i <= j
          issued == SubSeq(rest, 1, upto)
          entry == subnet_entry(cidr, subnet_type, ns, vh, vn)
          config2 == [config EXCEPT !.subnets = DictSet(@, subnet_name, entry)]
      IN  IF bad = {}
          THEN Outcome(Put(S, vpc_name, config2), RunAll(K, rest, TRUE), TRUE,
                       <<list>> \o rest \o <<StoreWrite(vpc_name)>>)
          ELSE Outcome(S, RunAll(K, issued, TRUE), FALSE, <<list>> \o issued)

create_subnet(S, K, vpc_name, subnet_name, cidr, subnet_type) ==
    IF vpc_name \notin DOMAIN S THEN Outcome(S, K, FALSE, <<>>)
    ELSE
      LET config == S[vpc_name]
          ns == ns_name(vpc_name, subnet_name)
          list == Cmd("ip netns list | grep -q", <<ns>>)
          add == <<Cmd("ip netns add", <<ns>>)>>
          r == run_cmd(K, list, FALSE)
          create == ~Truthy(r.ret)
          K2 == IF create THEN RunAll(r.k, add, TRUE) ELSE r.k
          vh == veth_host(subnet_name)
          vn == veth_ns(subnet_name)
          rest == <<Cmd("ip link add type veth peer name", <<vh, vn>>),
                    Cmd("ip link set netns", <<vn, ns>>),
                    Cmd("ip link set master", <<vh, config.bridge>>),
                    Cmd("ip link set up", <<vh>>),
                    Cmd("ip netns exec ip link set lo up", <<ns>>),
                    Cmd("ip netns exec ip link set up", <<ns, vn>>),
                    Cmd("ip netns exec ip addr add dev", <<ns, cidr, vn>>),
                    Cmd("ip netns exec ip route add default via",
                        <<ns, gateway_ip(cidr)>>)>>
          entry == subnet_entry(cidr, subnet_type, ns, vh, vn)
          config2 == [config EXCEPT !.subnets = DictSet(@, subnet_name, entry)]
      IN  Outcome(Put(S, vpc_name, config2), RunAll(K2, rest, TRUE), TRUE,
                  <<list>> \o (IF create THEN add ELSE <<>>) \o rest
                           \o <<StoreWrite(vpc_name)>>)

(***************************************************************************)
(* VPCManager.setup_nat                                                    *)
(***************************************************************************)
\* setup_nat without the test that the subnet is in the record.
setup_nat_unchecked(S, K, vpc_name, public_subnet, host_interface) ==
    IF vpc_name \notin DOMAIN S THEN Outcome(S, K, FALSE, <<>>)
    ELSE
      LET config == S[vpc_name]
          cmds == <<Cmd("sysctl -w net.ipv4.ip_forward=1", <<>>),
                    Cmd("iptables -t nat -A POSTROUTING -j MASQUERADE",
                        <<config.cidr, host_interface>>),
                    Cmd("iptables -A FORWARD -j ACCEPT",
                        <<config.bridge, host_interface>>),
                    Cmd("iptables -A FORWARD -m state -j ACCEPT",
                        <<host_interface, config.bridge>>)>>
      IN  Outcome(S, RunAll(K, cmds, TRUE), TRUE, cmds)

setup_nat(S, K, vpc_name, public_subnet, host_interface) ==
    IF vpc_name \notin DOMAIN S THEN Outcome(S, K, FALSE, <<>>)
    ELSE IF ~DictHas(S[vpc_name].subnets, public_subnet)
         THEN Outcome(S, K, FALSE, <<>>)
    ELSE
      LET config == S[vpc_name]
          cmds == <<Cmd("sysctl -w net.ipv4.ip_forward=1", <<>>),
                    Cmd("iptables -t nat -A POSTROUTING -j MASQUERADE",
                        <<config.cidr, host_interface>>),
                    Cmd("iptables -A FORWARD -j ACCEPT",
                        <<config.bridge, host_interface>>),
                    Cmd("iptables -A FORWARD -m state -j ACCEPT",
                        <<host_interface, config.bridge>>)>>
      IN  Outcome(S, RunAll(K, cmds, TRUE), TRUE, cmds)

(***************************************************************************)
(* VPCManager.exec_command                                                 *)
(***************************************************************************)
exec_command(S, K, vpc_name, subnet_name, command) ==
    IF vpc_name \notin DOMAIN S THEN Outcome(S, K, FALSE, <<>>)
    ELSE IF ~DictHas(S[vpc_name].subnets, subnet_name)
         THEN Outcome(S, K, FALSE, <<>>)
    ELSE
      LET ns == DictGet(S[vpc_name].subnets, subnet_name).namespace
          full_cmd == Cmd("ip netns exec", <<ns, command>>)
          r == run_cmd(K, full_cmd, FALSE)
      IN  Outcome(S, r.k, IF Truthy(r.ret) THEN r.ok ELSE FALSE, <<full_cmd>>)

(***************************************************************************)
(* VPCManager.list_vpcs: what is printed for each record of the store      *)
(***************************************************************************)
list_vpcs(S) ==
    [n \in DOMAIN S |->
        [name |-> S[n].name, cidr |-> S[n].cidr, bridge |-> S[n].bridge,
         subnets |-> [i \in 1..Len(S[n].subnets) |->
                        [name |-> S[n].subnets[i].key,
                         cidr |-> S[n].subnets[i].val.cidr,
                         type |-> S[n].subnets[i].val.type]]]]

(***************************************************************************)
(* VPCManager.apply_firewall                                               *)
(* rules_file: [given, exists, kind, ingress]; kind is what json.load and  *)
(* rules.get make of the file: "object" (a JSON object whose ingress, when *)
(* present, is a list of objects), or anything else, which raises.         *)
(***************************************************************************)
Get(obj, key, default) == IF key \in DOMAIN obj THEN obj[key] ELSE default

PyNone == <<"N", "o", "n", "e">>

\* rule_cmd with an entry that names no action taken as a deny.
rule_cmd_default_deny(ns, rule) ==
    LET port == Get(rule, "port", PyNone)
        protocol == Get(rule, "protocol", <<"tcp">>)
        action == Get(rule, "action", <<"deny">>)
    IN  Cmd("ip netns exec iptables -A INPUT --dport",
            <<ns, protocol, port,
              IF action = <<"allow">> THEN <<"ACCEPT">> ELSE <<"DROP">> >>)

rule_cmd(ns, rule) ==
    LET port == Get(rule, "port", PyNone)
        protocol == Get(rule, "protocol", <<"tcp">>)
        action == Get(rule, "action", <<"allow">>)
    IN  Cmd("ip netns exec iptables -A INPUT --dport",
            <<ns, protocol, port,
              IF action = <<"allow">> THEN <<"ACCEPT">> ELSE <<"DROP">> >>)

\* apply_firewall without the flush that opens the list of commands.
apply_firewall_no_flush(S, K, vpc_name, subnet_name, rules_file) ==
    IF vpc_name \notin DOMAIN S THEN Outcome(S, K, FALSE, <<>>)
    ELSE IF ~DictHas(S[vpc_name].subnets, subnet_name)
         THEN Outcome(S, K, FALSE, <<>>)
    ELSE
      LET ns == DictGet(S[vpc_name].subnets, subnet_name).namespace
          base == <<Cmd("ip netns exec iptables -P", <<ns, <<"INPUT">>, <<"DROP">> >>),
                    Cmd("ip netns exec iptables -P", <<ns, <<"FORWARD">>, <<"DROP">> >>),
                    Cmd("ip netns exec iptables -P", <<ns, <<"OUTPUT">>, <<"ACCEPT">> >>),
                    Cmd("ip netns exec iptables -A INPUT",
                        <<ns, <<"-m state --state ESTABLISHED,RELATED">>, <<"ACCEPT">> >>),
                    Cmd("ip netns exec iptables -A INPUT",
                        <<ns, <<"-i lo">>, <<"ACCEPT">> >>)>>
          read == rules_file.given /\ rules_file.exists
          custom == IF read
                    THEN [i \in 1..Len(rules_file.ingress) |->
                            rule_cmd(ns, rules_file.ingress[i])]
                    ELSE <<>>
          fixed == <<Cmd("ip netns exec iptables -A INPUT --dport",
                         <<ns, <<"tcp">>, <<"2", "2">>, <<"ACCEPT">> >>),
                     Cmd("ip netns exec iptables -A INPUT --dport",
                         <<ns, <<"tcp">>, <<"8", "0">>, <<"ACCEPT">> >>)>>
          cmds == base \o custom \o fixed
      IN  IF read /\ rules_file.kind # "object" THEN Outcome(S, K, FALSE, <<>>)
          ELSE Outcome(S, RunAll(K, cmds, TRUE), TRUE, cmds)

apply_firewall(S, K, vpc_name, subnet_name, rules_file) ==
    IF vpc_name \notin DOMAIN S THEN Outcome(S, K, FALSE, <<>>)
    ELSE IF ~DictHas(S[vpc_name].subnets, subnet_name)
         THEN Outcome(S, K, FALSE, <<>>)
    ELSE
      LET ns == DictGet(S[vpc_name].subnets, subnet_name).namespace
          base == <<Cmd("ip netns exec iptables -F", <<ns>>),
                    Cmd("ip netns exec iptables -P", <<ns, <<"INPUT">>, <<"DROP">> >>),
                    Cmd("ip netns exec iptables -P", <<ns, <<"FORWARD">>, <<"DROP">> >>),
                    Cmd("ip netns exec iptables -P", <<ns, <<"OUTPUT">>, <<"ACCEPT">> >>),
                    Cmd("ip netns exec iptables -A INPUT",
                        <<ns, <<"-m state --state ESTABLISHED,RELATED">>, <<"ACCEPT">> >>),
                    Cmd("ip netns exec iptables -A INPUT",
                        <<ns, <<"-i lo">>, <<"ACCEPT">> >>)>>
          read == rules_file.given /\ rules_file.exists
          custom == IF read
                    THEN [i \in 1..Len(rules_file.ingress) |->
                            rule_cmd(ns, rules_file.ingress[i])]
                    ELSE <<>>
          fixed == <<Cmd("ip netns exec iptables -A INPUT --dport",
                         <<ns, <<"tcp">>, <<"2", "2">>, <<"ACCEPT">> >>),
                     Cmd("ip netns exec iptables -A INPUT --dport",
                         <<ns, <<"tcp">>, <<"8", "0">>, <<"ACCEPT">> >>)>>
          cmds == base \o custom \o fixed
      IN  IF read /\ rules_file.kind # "object" THEN Outcome(S, K, FALSE, <<>>)
          ELSE Outcome(S, RunAll(K, cmds, TRUE), TRUE, cmds)

(***************************************************************************)
(* The state machine.  main() runs one VPCManager operation per process:   *)
(* a step runs one operation to its return, the next step is the exit of   *)
(* that process, and only then the next invocation starts.                 *)
(***************************************************************************)
VARIABLES
    store,    \* /tmp/vpc_configs: VPC name -> the record of <name>.json
    kernel,   \* bridges, namespaces, veth pairs, forwarding, host rules
    last,     \* the operation of the running process: its arguments, the
              \* state it started from, what it returned and what it issued
    earlier   \* the (name, cidr) of the process before, when that was a
              \* successful create_vpc
\* The specifications of single subsystems further down say what last and
\* earlier hold in them.

vars == <<store, kernel, last, earlier>>

\* "10.0.0.0/16", "10.0.1.0/24", "10.0.1.128/25", "10.0.1.0/33"
Cidr16 == <<"1", "0", ".", "0", ".", "0", ".", "0", "/", "1", "6">>
Cidr24 == <<"1", "0", ".", "0", ".", "1", ".", "0", "/", "2", "4">>
Cidr25 == <<"1", "0", ".", "0", ".", "1", ".", "1", "2", "8", "/", "2", "5">>
CidrBad == <<"1", "0", ".", "0", ".", "1", ".", "0", "/", "3", "3">>

VpcCidrs == {Cidr16, CidrBad}
\* The (cidr, type) pairs create_subnet is called with.
SubnetArgs == {<<Cidr24, "public">>, <<Cidr25, "private">>}
\* The (vpc, subnet) names the subnet operations are called with.
Targets == {<<"a", "web">>, <<"a", "db">>, <<"b", "web">>}
Interfaces == {<<"eth0">>}
Commands == {<<"true">>, <<"false">>}

NoRulesFile == [given |-> FALSE, exists |-> FALSE, kind |-> "none", ingress |-> <<>>]
MissingFile == [given |-> TRUE, exists |-> FALSE, kind |-> "none", ingress |-> <<>>]
BrokenFile == [given |-> TRUE, exists |-> TRUE, kind |-> "invalid", ingress |-> <<>>]
DenyFile ==
    [given |-> TRUE, exists |-> TRUE, kind |-> "object",
     ingress |-> <<[port |-> <<"4", "4", "3">>, action |-> <<"deny">>]>>]
RulesFiles == {NoRulesFile, MissingFile, BrokenFile, DenyFile}

\* Bridges and namespaces an operator may have made before vpcctl runs.
PreBridges == {{}, {bridge_name(v) : v \in VPCs}}
PreNamespaces == {{}, {ns_name("a", "web")}}

MaxNatRules == 3

NoCall == [op |-> "none", vpc |-> "", subnet |-> "", cidr |-> <<>>, type |-> "",
           result |-> FALSE, trace |-> <<>>, again |-> FALSE,
           pre |-> [store |-> Empty, k |-> Empty]]

Call(op, vpc, subnet, cidr, type, o) ==
    [op |-> op, vpc |-> vpc, subnet |-> subnet, cidr |-> cidr, type |-> type,
     result |-> o.result, trace |-> o.trace,
     again |-> op = "create_vpc" /\ earlier = <<vpc, cidr>>,
     pre |-> [store |-> store, k |-> kernel]]

Init ==
    /\ store = Empty
    /\ \E bs \in PreBridges, nss \in PreNamespaces :
          kernel = [bridges |-> [b \in bs |-> [up |-> TRUE]],
                    netns |-> [n \in nss |-> FreshNs],
                    veths |-> Empty,
                    forward |-> FALSE,
                    nat |-> <<>>,
                    refused |-> {}]
    /\ last = NoCall
    /\ earlier = <<>>

Done(op, vpc, subnet, cidr, type, o) ==
    /\ UNCHANGED earlier
    /\ store' = o.store
    /\ kernel' = o.k
    /\ last' = Call(op, vpc, subnet, cidr, type, o)

CreateVpc ==
    \E name \in VPCs, cidr \in VpcCidrs :
        LET o == create_vpc(store, kernel, name, cidr)
        IN  /\ last = NoCall
            /\ Done("create_vpc", name, "", cidr, "", o)

DeleteVpc ==
    \E name \in VPCs :
        LET o == delete_vpc(store, kernel, name)
        IN  /\ last = NoCall
            /\ Done("delete_vpc", name, "", <<>>, "", o)

CreateSubnet ==
    \E t \in Targets, arg \in SubnetArgs :
        LET o == create_subnet(store, kernel, t[1], t[2], arg[1], arg[2])
        IN  /\ last = NoCall
            /\ Done("create_subnet", t[1], t[2], arg[1], arg[2], o)

DeleteSubnet ==
    \E t \in Targets :
        LET o == delete_subnet(store, kernel, t[1], t[2])
        IN  /\ last = NoCall
            /\ Done("delete_subnet", t[1], t[2], <<>>, "", o)

\* The host's rule list only grows: the model stops at MaxNatRules rules.
SetupNat ==
    \E t \in Targets, i \in Interfaces :
        LET o == setup_nat(store, kernel, t[1], t[2], i)
        IN  /\ last = NoCall
            /\ Len(o.k.nat) <= MaxNatRules
            /\ Done("setup_nat", t[1], t[2], <<>>, "", o)

ExecCommand ==
    \E t \in Targets, c \in Commands :
        LET o == exec_command(store, kernel, t[1], t[2], c)
        IN  /\ last = NoCall
            /\ Done("exec_command", t[1], t[2], <<>>, "", o)

ApplyFirewall ==
    \E t \in Targets, f \in RulesFiles :
        LET o == apply_firewall(store, kernel, t[1], t[2], f)
        IN  /\ last = NoCall
            /\ Done("apply_firewall", t[1], t[2], <<>>, "", o)

ListVpcs ==
    LET o == Outcome(store, kernel, TRUE, <<>>)
    IN  /\ last = NoCall
        /\ Done("list_vpcs", "", "", <<>>, "", o)

\* main returns and the process ends.
Exit ==
    /\ last # NoCall
    /\ last' = NoCall
    /\ earlier' = IF last.op = "create_vpc" /\ last.result
                  THEN <<last.vpc, last.cidr>> ELSE <<>>
    /\ UNCHANGED <<store, kernel>>

Next ==
    \/ CreateVpc
    \/ DeleteVpc
    \/ CreateSubnet
    \/ DeleteSubnet
    \/ SetupNat
    \/ ExecCommand
    \/ ApplyFirewall
    \/ ListVpcs
    \/ Exit

Spec == Init /\ [][Next]_vars

(***************************************************************************)
(* validate_cidr called on its own: the strings it is given are built from *)
(* octet and mask tokens, joined as Shape says.                            *)
(***************************************************************************)
GoodTokens == {<<"0">>, <<"2", "5", "5">>}
OctetTokens ==
    GoodTokens \cup
    {<<"2", "5", "6">>, <<"0", "0", "7">>, <<"+", "1">>, <<"-", "1">>,
     <<" ", "1">>, <<"1", "_", "0">>, <<"a">>, <<>>}
MaskTokens ==
    {<<"0">>, <<"3", "2">>, <<"3", "3">>, <<"+", "8">>, <<"8", " ">>,
     <<"x">>, <<>>}
Shapes == {"a.b.c.d/m", "a.b.c/m", "a.b.c.d.e/m", "a.b.c.d", "a.b.c.d/m/m"}

Text(shape, octets, mask) ==
    LET n == CASE shape = "a.b.c/m" -> 3
               [] shape = "a.b.c.d.e/m" -> 5
               [] OTHER -> 4
        ip == Join([i \in 1..n |-> octets[IF i > 4 THEN 4 ELSE i]], ".")
    IN  CASE shape = "a.b.c.d" -> ip
          [] shape = "a.b.c.d/m/m" -> ip \o <<"/">> \o mask \o <<"/">> \o mask
          [] OTHER -> ip \o <<"/">> \o mask

\* One octet is any token, the other three are plain ones.
TestOctets ==
    {o \in [1..4 -> OctetTokens] :
        \E p \in 1..4 : \A i \in 1..4 : i # p => o[i] \in GoodTokens}

ValidateCidr ==
    /\ last = NoCall
    /\ \E shape \in Shapes, o \in TestOctets, m \in MaskTokens :
          LET cidr == Text(shape, o, m)
          IN  last' = [NoCall EXCEPT !.op = "validate_cidr", !.cidr = cidr,
                                     !.result = validate_cidr(cidr)]
    /\ UNCHANGED <<store, kernel, earlier>>

InitValidate ==
    /\ store = Empty
    /\ kernel = [bridges |-> Empty, netns |-> Empty, veths |-> Empty,
                 forward |-> FALSE, nat |-> <<>>]
    /\ last = NoCall
    /\ earlier = <<>>

NextValidate == ValidateCidr \/ Exit

SpecValidate == InitValidate /\ [][NextValidate]_vars

(***************************************************************************)
(* Properties                                                              *)
(***************************************************************************)
Pre == last.pre
VpcAbsent == last.vpc \notin DOMAIN Pre.store
SubnetAbsent ==
    VpcAbsent \/ ~DictHas(Pre.store[last.vpc].subnets, last.subnet)

\* The driver commands that change the kernel: everything issued but the
\* two queries and the store's own writes.
Mutating(e) ==
    e.c \notin {"ip link show", "ip netns list | grep -q",
                "store.write", "store.unlink"}

Issued(c) == {i \in 1..Len(last.trace) : last.trace[i].c = c}

\* C1: an operation naming an absent VPC (delete_vpc, create_subnet, and the
\* four below) or an absent subnet of a present VPC (delete_subnet,
\* setup_nat, apply_firewall, exec_command) returns failure, issues no
\* kernel-mutating command and leaves the store and the kernel unchanged.
C1_NotFoundNoMutation ==
    (\/ last.op \in {"delete_vpc", "create_subnet"} /\ VpcAbsent
     \/ /\ last.op \in {"delete_subnet", "setup_nat", "apply_firewall",
                        "exec_command"}
        /\ SubnetAbsent)
    => /\ ~last.result
       /\ \A i \in 1..Len(last.trace) : ~Mutating(last.trace[i])
       /\ store = Pre.store
       /\ kernel = Pre.k

C1_Witness ==
    /\ last.op = "setup_nat"
    /\ ~VpcAbsent /\ SubnetAbsent
    /\ Len(Pre.store[last.vpc].subnets) > 0
    /\ ~last.result

\* C2: delete_vpc on an existing record attempts the namespace deletion of
\* every subnet of the record before it brings the bridge down and deletes
\* it, and removes the record after all of these, as its last step.
C2_DeleteVpcOrder ==
    (last.op = "delete_vpc" /\ ~VpcAbsent)
    => LET tr == last.trace
           config == Pre.store[last.vpc]
           down == Issued("ip link set down")
           del == Issued("ip link delete type bridge")
           unlink == Issued("store.unlink")
       IN  /\ Cardinality(down) = 1 /\ Cardinality(del) = 1
           /\ unlink = {Len(tr)}
           /\ \A d \in down, e \in del :
                 /\ d < e /\ e < Len(tr)
                 /\ tr[d].a = <<config.bridge>> /\ tr[e].a = <<config.bridge>>
                 /\ \A i \in 1..Len(config.subnets) :
                       \E j \in Issued("ip netns delete") :
                          /\ tr[j].a = <<config.subnets[i].val.namespace>>
                          /\ j < d
                 /\ \A j \in Issued("ip netns delete") : j < d
           /\ last.vpc \notin DOMAIN store

C2_Witness ==
    /\ last.op = "delete_vpc" /\ ~VpcAbsent
    /\ Len(Pre.store[last.vpc].subnets) = 2
    /\ Cardinality(Issued("ip netns delete")) = 2

\* C3: create_vpc(name, cidr) called twice in a row with a valid CIDR: the
\* second call succeeds and leaves the store as the first call left it, with
\* one record for name, and issues no bridge-create command for a bridge
\* that exists.
C3_CreateVpcTwice ==
    (last.op = "create_vpc" /\ last.again)
    => /\ last.result
       /\ store = Pre.store
       /\ last.vpc \in DOMAIN store
       /\ bridge_name(last.vpc) \in DOMAIN Pre.k.bridges
             => Issued("ip link add type bridge") = {}

C3_Witness ==
    /\ last.op = "create_vpc" /\ last.again /\ last.result
    /\ bridge_name(last.vpc) \in DOMAIN Pre.k.bridges

\* C4: create_vpc with a valid CIDR and no bridge br-<name> in the kernel
\* issues the bridge-create and bridge-up commands, and the bridge exists
\* and is up when it returns success; with the bridge there it issues
\* neither.
C4_BridgeCreated ==
    (last.op = "create_vpc" /\ validate_cidr(last.cidr) /\ last.result)
    => LET bridge == bridge_name(last.vpc)
       IN  IF bridge \notin DOMAIN Pre.k.bridges
           THEN /\ Issued("ip link add type bridge") # {}
                /\ Issued("ip link set up") # {}
                /\ bridge \in DOMAIN kernel.bridges
                /\ kernel.bridges[bridge].up
           ELSE /\ Issued("ip link add type bridge") = {}
                /\ Issued("ip link set up") = {}

\* C5: create_subnet on an existing record whose bridge exists and whose
\* namespace does not: when it returns success the namespace exists, the
\* namespace end of the veth pair is in it and holds cidr, the host end is a
\* port of the bridge, and the default route goes via the derived gateway.
C5_SubnetProvisioned ==
    (/\ last.op = "create_subnet" /\ ~VpcAbsent /\ last.result
     /\ Pre.store[last.vpc].bridge \in DOMAIN Pre.k.bridges
     /\ ns_name(last.vpc, last.subnet) \notin DOMAIN Pre.k.netns)
    => LET ns == ns_name(last.vpc, last.subnet)
           vh == veth_host(last.subnet)
       IN  /\ ns \in DOMAIN kernel.netns
           /\ InNs(kernel, ns, veth_ns(last.subnet))
           /\ vh \in DOMAIN kernel.veths
           /\ last.cidr \in kernel.veths[vh].addrs
           /\ kernel.veths[vh].master = Pre.store[last.vpc].bridge
           /\ kernel.netns[ns].route = gateway_ip(last.cidr)

\* C6: the namespace and veth pair of subnet s of VPC v exist in the kernel
\* if and only if the entry s exists in the record of v; create_vpc,
\* delete_vpc, create_subnet and delete_subnet keep it so.
Consistent(S, K) ==
    \A v \in VPCs, s \in Subnets :
        (/\ ns_name(v, s) \in DOMAIN K.netns
         /\ InNs(K, ns_name(v, s), veth_ns(s)))
        <=> (v \in DOMAIN S /\ DictHas(S[v].subnets, s))

C6_NamespaceIffEntry ==
    (/\ last.op \in {"create_vpc", "delete_vpc", "create_subnet", "delete_subnet"}
     /\ Consistent(Pre.store, Pre.k))
    => Consistent(store, kernel)

\* The subnets a listing shows under a VPC, but for the one named s.
OthersListed(L, v, s) ==
    {L[v].subnets[i] : i \in {j \in 1..Len(L[v].subnets) : L[v].subnets[j].name # s}}

ListedAs(L, v, s) ==
    {L[v].subnets[i] : i \in {j \in 1..Len(L[v].subnets) : L[v].subnets[j].name = s}}

RestListedAsBefore(L, P) ==
    /\ DOMAIN L = DOMAIN P
    /\ \A n \in DOMAIN L : n # last.vpc => L[n] = P[n]
    /\ L[last.vpc].name = P[last.vpc].name
    /\ L[last.vpc].cidr = P[last.vpc].cidr
    /\ L[last.vpc].bridge = P[last.vpc].bridge
    /\ OthersListed(L, last.vpc, last.subnet) = OthersListed(P, last.vpc, last.subnet)

\* C7: after a successful create_subnet(vpc, s, cidr, type), list_vpcs shows
\* s under vpc once, with that cidr and type, and everything else as
\* before; after a successful delete_subnet(vpc, s) it no longer shows s and
\* shows everything else as before.
C7_ListRoundTrip ==
    LET L == list_vpcs(store)
        P == list_vpcs(Pre.store)
    IN  /\ (last.op = "create_subnet" /\ last.result)
            => /\ RestListedAsBefore(L, P)
               /\ ListedAs(L, last.vpc, last.subnet) =
                     {[name |-> last.subnet, cidr |-> last.cidr, type |-> last.type]}
               /\ Cardinality({j \in 1..Len(L[last.vpc].subnets) :
                                 L[last.vpc].subnets[j].name = last.subnet}) = 1
        /\ (last.op = "delete_subnet" /\ last.result)
            => /\ RestListedAsBefore(L, P)
               /\ ListedAs(L, last.vpc, last.subnet) = {}

C7_Witness ==
    /\ last.op = "delete_subnet" /\ last.result
    /\ ListedAs(list_vpcs(Pre.store), last.vpc, last.subnet) =
          {[name |-> last.subnet, cidr |-> Cidr24, type |-> "public"]}
    /\ OthersListed(list_vpcs(store), last.vpc, last.subnet) # {}
    /\ Cardinality(DOMAIN store) = 2

\* The address part of cidr with its whole last octet replaced by 1.
LastOctetOne(cidr) ==
    LET parts == Split(Split(cidr, "/")[1], ".")
    IN  Join(SubSeq(parts, 1, Len(parts) - 1) \o <<<<"1">>>>, ".")

\* C8: the gateway create_subnet uses for the default route of a.b.c.d/m is
\* a.b.c.1, whatever the number of digits of d.
C8_GatewayLastOctet ==
    (last.op = "create_subnet" /\ ~VpcAbsent)
    => \A i \in Issued("ip netns exec ip route add default via") :
          last.trace[i].a[2] = LastOctetOne(last.cidr)

\* C9: validate_cidr is true exactly for the strings a.b.c.d/m whose four
\* octets are plain decimal numbers in 0..255 and whose mask is a plain
\* decimal number in 0..32.
C9_ValidateExact ==
    last.op = "validate_cidr" => (last.result <=> PlainCidr(last.cidr))

\* C10: create_vpc with a CIDR validate_cidr rejects returns failure, issues
\* no command, writes no record and leaves an existing record unchanged.
C10_InvalidCidrRejected ==
    (last.op = "create_vpc" /\ ~validate_cidr(last.cidr))
    => /\ ~last.result
       /\ last.trace = <<>>
       /\ store = Pre.store
       /\ kernel = Pre.k

C10_Witness ==
    /\ last.op = "create_vpc" /\ ~validate_cidr(last.cidr)
    /\ ~VpcAbsent
    /\ Len(Pre.store[last.vpc].subnets) > 0
    /\ ~last.result

(***************************************************************************)
(* The firewall of the subnets of one VPC: apply-firewall run again and    *)
(* again, with every kind of rules file.  last is the running call (with   *)
(* its --rules-file argument), earlier the call before it.                 *)
(***************************************************************************)
\* {} : a JSON object with no "ingress" key.
EmptyFile == [given |-> TRUE, exists |-> TRUE, kind |-> "object", ingress |-> <<>>]
\* {"ingress": [{"port": 443, "action": "deny"},
\*              {"port": 53, "protocol": "udp"},
\*              {"port": 8080, "action": "allow"},
\*              {"protocol": "tcp", "action": "reject"}]}
MixedFile ==
    [given |-> TRUE, exists |-> TRUE, kind |-> "object",
     ingress |-> <<[port |-> <<"4", "4", "3">>, action |-> <<"deny">>],
                   [port |-> <<"5", "3">>, protocol |-> <<"udp">>],
                   [port |-> <<"8", "0", "8", "0">>, action |-> <<"allow">>],
                   [protocol |-> <<"tcp">>, action |-> <<"reject">>]>>]
FwRulesFiles == RulesFiles \cup {EmptyFile, MixedFile}

FwNamespaces == SUBSET {ns_name("a", "web"), ns_name("a", "db")}

\* The host after create-vpc a and create-subnet a web, a db, on a host
\* where an operator made the bridge and the namespaces nss.
FwHost(nss) ==
    LET K0 == [bridges |-> [b \in {bridge_name("a")} |-> [up |-> TRUE]],
               netns |-> [n \in nss |-> FreshNs],
               veths |-> Empty,
               forward |-> FALSE,
               nat |-> <<>>,
               refused |-> {}]
        o1 == create_vpc(Empty, K0, "a", Cidr16)
        o2 == create_subnet(o1.store, o1.k, "a", "web", Cidr24, "public")
    IN  create_subnet(o2.store, o2.k, "a", "db", Cidr25, "private")

FwNoCall == [op |-> "none", vpc |-> "", subnet |-> "", file |-> NoRulesFile,
             result |-> FALSE, trace |-> <<>>,
             pre |-> [store |-> Empty, k |-> Empty]]

InitFirewall ==
    /\ \E nss \in FwNamespaces :
          /\ store = FwHost(nss).store
          /\ kernel = FwHost(nss).k
    /\ last = FwNoCall
    /\ earlier = FwNoCall

FwApply ==
    \E t \in Targets, f \in FwRulesFiles :
        LET o == apply_firewall(store, kernel, t[1], t[2], f)
        IN  /\ store' = o.store
            /\ kernel' = o.k
            /\ last' = [op |-> "apply_firewall", vpc |-> t[1], subnet |-> t[2],
                        file |-> f, result |-> o.result, trace |-> o.trace,
                        pre |-> [store |-> store, k |-> kernel]]
            /\ earlier' = [last EXCEPT !.pre = [store |-> Empty, k |-> Empty]]

NextFirewall == FwApply

SpecFirewall == InitFirewall /\ [][NextFirewall]_vars

FwOnSubnet ==
    /\ last.op = "apply_firewall"
    /\ last.vpc \in DOMAIN Pre.store
    /\ DictHas(Pre.store[last.vpc].subnets, last.subnet)

FwNs == ns_name(last.vpc, last.subnet)

\* What the claim says one ingress entry becomes.
FwVerdict(rule) ==
    IF "action" \in DOMAIN rule /\ rule.action # <<"allow">>
    THEN <<"DROP">> ELSE <<"ACCEPT">>
FwProtocol(rule) == IF "protocol" \in DOMAIN rule THEN rule.protocol ELSE <<"tcp">>
FwPort(rule) == IF "port" \in DOMAIN rule THEN rule.port ELSE PyNone

FwEntries ==
    IF last.file.given /\ last.file.exists /\ last.file.kind = "object"
    THEN last.file.ingress ELSE <<>>

C12_RuleFileError ==
    (/\ FwOnSubnet
     /\ last.file.given
     /\ (~last.file.exists \/ last.file.kind # "object"))
        => ~last.result

\* The rules and policies of a namespace.
FwTable(K, ns) == [policy |-> K.netns[ns].policy, rules |-> K.netns[ns].rules]

\* The table apply_firewall leaves with the arguments of the last call in a
\* namespace that had no rule and the policies of a new namespace.
FwFromScratch ==
    FwTable(apply_firewall(Pre.store,
                           [Pre.k EXCEPT !.netns[FwNs].policy = FreshNs.policy,
                                         !.netns[FwNs].rules = FreshNs.rules],
                           last.vpc, last.subnet, last.file).k,
            FwNs)

FwRepeated ==
    /\ earlier.op = "apply_firewall" /\ earlier.result
    /\ earlier.vpc = last.vpc /\ earlier.subnet = last.subnet
    /\ earlier.file = last.file

\* C19: a successful apply_firewall on a subnet whose namespace is there
\* leaves the rules and policies that the same call leaves in an untouched
\* namespace, whatever calls came before; so a second successful call with
\* the same rules file leaves the table of the first.
C19_FirewallIdempotent ==
    (FwOnSubnet /\ last.result /\ FwNs \in DOMAIN kernel.netns) =>
        /\ FwTable(kernel, FwNs) = FwFromScratch
        /\ FwRepeated => FwTable(kernel, FwNs) = FwTable(Pre.k, FwNs)

\* The four-entry file applied twice in a row to a namespace that is there.
C19_Witness ==
    /\ FwOnSubnet /\ last.result /\ FwNs \in DOMAIN kernel.netns
    /\ FwRepeated
    /\ last.file = MixedFile
    /\ Len(kernel.netns[FwNs].rules) = 7
    /\ FwTable(kernel, FwNs) = FwTable(Pre.k, FwNs)

(***************************************************************************)
(* Teardown on a host that refuses commands: delete-subnet and delete-vpc  *)
(* on a VPC with two subnets, for every set of the teardown commands that  *)
(* the host may refuse and every set of kernel objects that are there.     *)
(***************************************************************************)
TdRefusable ==
    {Cmd("ip netns delete", <<ns_name("a", "web")>>),
     Cmd("ip netns delete", <<ns_name("a", "db")>>),
     Cmd("ip link set down", <<bridge_name("a")>>),
     Cmd("ip link delete type bridge", <<bridge_name("a")>>)}

TdBridges == SUBSET {bridge_name("a")}

\* The host after create-vpc a and create-subnet a web, a db, on a host
\* where an operator made the bridges bs and the namespaces nss.
Provisioned(bs, nss, refused) ==
    LET K0 == [bridges |-> [b \in bs |-> [up |-> TRUE]],
               netns |-> [n \in nss |-> FreshNs],
               veths |-> Empty,
               forward |-> FALSE,
               nat |-> <<>>,
               refused |-> refused]
        o1 == create_vpc(Empty, K0, "a", Cidr16)
        o2 == create_subnet(o1.store, o1.k, "a", "web", Cidr24, "public")
    IN  create_subnet(o2.store, o2.k, "a", "db", Cidr25, "private")

InitTeardown ==
    /\ \E bs \in TdBridges, nss \in FwNamespaces, refused \in SUBSET TdRefusable :
          /\ store = Provisioned(bs, nss, refused).store
          /\ kernel = Provisioned(bs, nss, refused).k
    /\ last = NoCall
    /\ earlier = <<>>

TdDeleteVpc ==
    \E name \in VPCs :
        LET o == delete_vpc(store, kernel, name)
        IN  /\ store' = o.store
            /\ kernel' = o.k
            /\ last' = Call("delete_vpc", name, "", <<>>, "", o)
            /\ UNCHANGED earlier

TdDeleteSubnet ==
    \E t \in Targets :
        LET o == delete_subnet(store, kernel, t[1], t[2])
        IN  /\ store' = o.store
            /\ kernel' = o.k
            /\ last' = Call("delete_subnet", t[1], t[2], <<>>, "", o)
            /\ UNCHANGED earlier

NextTeardown == TdDeleteVpc \/ TdDeleteSubnet

SpecTeardown == InitTeardown /\ [][NextTeardown]_vars

\* Whether every driver command of a trace exits with status 0 when the
\* trace is run from the kernel K.
RECURSIVE AllOk(_, _)
AllOk(K, trace) ==
    IF trace = <<>> THEN TRUE
    ELSE IF ~Mutating(Head(trace)) THEN AllOk(K, Tail(trace))
    ELSE /\ Exec(K, Head(trace)).ok
         /\ AllOk(Exec(K, Head(trace)).k, Tail(trace))

NamespacesOf(config) ==
    {config.subnets[i].val.namespace : i \in 1..Len(config.subnets)}

\* C13: delete_vpc on a name with a record returns True with the record
\* gone from the store, whichever of its commands fail; when none of them
\* failed, the namespaces of the subnets the record held and the bridge
\* are gone from the kernel.
C13_DeleteVpcBestEffort ==
    (last.op = "delete_vpc" /\ ~VpcAbsent) =>
        /\ last.result
        /\ last.vpc \notin DOMAIN store
        /\ AllOk(Pre.k, last.trace) =>
              /\ Pre.store[last.vpc].bridge \notin DOMAIN kernel.bridges
              /\ NamespacesOf(Pre.store[last.vpc]) \cap DOMAIN kernel.netns = {}

\* A delete_vpc of a VPC with two subnets where the host refused to delete
\* one namespace and the bridge: both are still there, the record is not.
C13_Witness ==
    /\ last.op = "delete_vpc" /\ ~VpcAbsent
    /\ Len(Pre.store[last.vpc].subnets) = 2
    /\ ~AllOk(Pre.k, last.trace)
    /\ ns_name("a", "web") \in DOMAIN kernel.netns
    /\ ns_name("a", "db") \notin DOMAIN kernel.netns
    /\ ns_name("a", "db") \in DOMAIN Pre.k.netns
    /\ bridge_name("a") \in DOMAIN kernel.bridges
    /\ last.result /\ last.vpc \notin DOMAIN store

(***************************************************************************)
(* Provisioning on a host that refuses commands: create-vpc and            *)
(* create-subnet for one VPC, with two valid VPC ranges, with a subnet     *)
(* range that validate_cidr rejects, and with a command of create-subnet   *)
(* (or all of them) refused by the host.                                   *)
(***************************************************************************)
\* "10.1.0.0/16"
Cidr16b == <<"1", "0", ".", "1", ".", "0", ".", "0", "/", "1", "6">>

PvVpcCidrs == {Cidr16, Cidr16b, CidrBad}
PvSubnetArgs == SubnetArgs \cup {<<CidrBad, "private">>}
PvTargets == {<<"a", "web">>, <<"b", "web">>}

\* The commands of create_subnet("a", "web", "10.0.1.0/24") after the test
\* for the namespace.
PvCommands ==
    <<Cmd("ip netns add", <<ns_name("a", "web")>>),
      Cmd("ip link add type veth peer name", <<veth_host("web"), veth_ns("web")>>),
      Cmd("ip link set netns", <<veth_ns("web"), ns_name("a", "web")>>),
      Cmd("ip link set master", <<veth_host("web"), bridge_name("a")>>),
      Cmd("ip link set up", <<veth_host("web")>>),
      Cmd("ip netns exec ip link set lo up", <<ns_name("a", "web")>>),
      Cmd("ip netns exec ip link set up", <<ns_name("a", "web"), veth_ns("web")>>),
      Cmd("ip netns exec ip addr add dev", <<ns_name("a", "web"), Cidr24, veth_ns("web")>>),
      Cmd("ip netns exec ip route add default via",
          <<ns_name("a", "web"), gateway_ip(Cidr24)>>)>>

\* No command refused, one of them, or all of them.
PvRefusals ==
    {{}, {PvCommands[i] : i \in 1..Len(PvCommands)}}
        \cup {{PvCommands[i]} : i \in 1..Len(PvCommands)}

InitProvision ==
    /\ store = Empty
    /\ \E bs \in TdBridges, nss \in FwNamespaces, refused \in PvRefusals :
          kernel = [bridges |-> [b \in bs |-> [up |-> TRUE]],
                    netns |-> [n \in nss |-> FreshNs],
                    veths |-> Empty,
                    forward |-> FALSE,
                    nat |-> <<>>,
                    refused |-> refused]
    /\ last = NoCall
    /\ earlier = <<>>

PvCreateVpc ==
    \E cidr \in PvVpcCidrs :
        LET o == create_vpc(store, kernel, "a", cidr)
        IN  /\ store' = o.store
            /\ kernel' = o.k
            /\ last' = Call("create_vpc", "a", "", cidr, "", o)
            /\ UNCHANGED earlier

PvCreateSubnet ==
    \E t \in PvTargets, arg \in PvSubnetArgs :
        LET o == create_subnet(store, kernel, t[1], t[2], arg[1], arg[2])
        IN  /\ store' = o.store
            /\ kernel' = o.k
            /\ last' = Call("create_subnet", t[1], t[2], arg[1], arg[2], o)
            /\ UNCHANGED earlier

NextProvision == PvCreateVpc \/ PvCreateSubnet

SpecProvision == InitProvision /\ [][NextProvision]_vars

\* C14: create_vpc with a CIDR that validate_cidr accepts returns True and
\* leaves under the name the record {name, cidr, bridge br-<name>, no
\* subnets}, whatever record was there and whatever the host refuses; it
\* issues what it issues on an empty store, and no namespace is removed.
C14_CreateVpcOverwrites ==
    (last.op = "create_vpc" /\ validate_cidr(last.cidr)) =>
        /\ last.result
        /\ last.vpc \in DOMAIN store
        /\ store[last.vpc] = [name |-> last.vpc, cidr |-> last.cidr,
                              bridge |-> bridge_name(last.vpc), subnets |-> <<>>]
        /\ last.trace = create_vpc(Empty, Pre.k, last.vpc, last.cidr).trace
        /\ Issued("ip netns delete") = {}
        /\ kernel.netns = Pre.k.netns

\* create_vpc with another range on a VPC that has a subnet whose namespace
\* is there: the subnet is gone from the record, the namespace is not.
C14_Witness ==
    /\ last.op = "create_vpc" /\ last.result
    /\ ~VpcAbsent
    /\ Pre.store[last.vpc].cidr # last.cidr
    /\ DictHas(Pre.store[last.vpc].subnets, "web")
    /\ store[last.vpc].subnets = <<>>
    /\ store[last.vpc].cidr = last.cidr
    /\ ns_name(last.vpc, "web") \in DOMAIN kernel.netns

\* The commands of create_subnet after the test for the namespace, as the
\* claim lists them, for the arguments of the last call.
C15_Commands ==
    LET ns == ns_name(last.vpc, last.subnet)
        vh == veth_host(last.subnet)
        vn == veth_ns(last.subnet)
    IN  <<Cmd("ip link add type veth peer name", <<vh, vn>>),
          Cmd("ip link set netns", <<vn, ns>>),
          Cmd("ip link set master", <<vh, bridge_name(last.vpc)>>),
          Cmd("ip link set up", <<vh>>),
          Cmd("ip netns exec ip link set lo up", <<ns>>),
          Cmd("ip netns exec ip link set up", <<ns, vn>>),
          Cmd("ip netns exec ip addr add dev", <<ns, last.cidr, vn>>),
          Cmd("ip netns exec ip route add default via",
              <<ns, gateway_ip(last.cidr)>>)>>

\* C15: create_subnet on a VPC with a record returns True, whichever of
\* its commands fail: the veth, netns, master, up, address and route
\* commands are all issued, in order, followed by the write of the record,
\* and the record holds the entry of the subnet.
C15_CreateSubnetNoAbort ==
    (last.op = "create_subnet" /\ ~VpcAbsent) =>
        LET n == Len(last.trace)
        IN  /\ last.result
            /\ n >= 10
            /\ SubSeq(last.trace, n - 8, n - 1) = C15_Commands
            /\ last.trace[n] = StoreWrite(last.vpc)
            /\ DictHas(store[last.vpc].subnets, last.subnet)
            /\ DictGet(store[last.vpc].subnets, last.subnet).cidr = last.cidr

\* A create_subnet whose first command after the namespace test (the veth
\* pair) was refused by the host, in a namespace that is there: the seven
\* commands after it were issued and the record was written.
C15_Witness ==
    /\ last.op = "create_subnet" /\ ~VpcAbsent /\ last.result
    /\ ns_name(last.vpc, last.subnet) \in DOMAIN Pre.k.netns
    /\ PvCommands[2] \in Pre.k.refused
    /\ last.trace[2] = PvCommands[2]
    /\ ~AllOk(Pre.k, last.trace)
    /\ Len(last.trace) = 10
    /\ DictHas(store[last.vpc].subnets, last.subnet)

CidrsOf(S) ==
    {S[v].cidr : v \in DOMAIN S}
        \cup UNION {{S[v].subnets[i].val.cidr : i \in 1..Len(S[v].subnets)} :
                    v \in DOMAIN S}

\* C18: create_subnet with a CIDR that validate_cidr rejects issues no
\* command that changes the kernel and writes nothing, and every cidr of
\* the store, of a VPC or of a subnet, is one validate_cidr accepts.
C18_SubnetCidrValidated ==
    /\ (last.op = "create_subnet" /\ ~validate_cidr(last.cidr)) =>
          /\ \A i \in 1..Len(last.trace) : ~Mutating(last.trace[i])
          /\ Issued("store.write") = {}
          /\ store = Pre.store
    /\ \A c \in CidrsOf(store) : validate_cidr(c)

(***************************************************************************)
(* Two vpcctl processes at once.  Each runs create_subnet on VPC a, one    *)
(* statement at a time: the record is read (lines 95-102), the commands    *)
(* are run one by one (106-130), the record is written (133-142).  Here    *)
(* last maps each process to its position and its local variables, and     *)
(* earlier is the log of the reads and writes of the record.               *)
(***************************************************************************)
Procs == {1, 2}

\* The arguments of the two processes.
RaceArgs ==
    [p \in Procs |->
        IF p = 1 THEN [vpc |-> "a", subnet |-> "web", cidr |-> Cidr24, type |-> "public"]
        ELSE [vpc |-> "a", subnet |-> "db", cidr |-> Cidr25, type |-> "private"]]

Idle == [pc |-> "start", config |-> Empty, todo |-> <<>>, trace |-> <<>>,
         result |-> FALSE]

InitRace ==
    /\ \E bs \in TdBridges, nss \in FwNamespaces :
          LET K0 == [bridges |-> [b \in bs |-> [up |-> TRUE]],
                     netns |-> [n \in nss |-> FreshNs],
                     veths |-> Empty,
                     forward |-> FALSE,
                     nat |-> <<>>,
                     refused |-> {}]
              o == create_vpc(Empty, K0, "a", Cidr16)
          IN  store = o.store /\ kernel = o.k
    /\ last = [p \in Procs |-> Idle]
    /\ earlier = <<>>

\* if not config_file.exists(): return False
\* with open(config_file) as f: config = json.load(f)
load_config(S, vpc_name) ==
    IF vpc_name \notin DOMAIN S THEN [found |-> FALSE, config |-> Empty]
    ELSE [found |-> TRUE, config |-> S[vpc_name]]

\* Lines 116-130: the commands after the namespace is dealt with.
subnet_cmds(config, vpc_name, subnet_name, cidr) ==
    LET ns == ns_name(vpc_name, subnet_name)
        vh == veth_host(subnet_name)
        vn == veth_ns(subnet_name)
    IN  <<Cmd("ip link add type veth peer name", <<vh, vn>>),
          Cmd("ip link set netns", <<vn, ns>>),
          Cmd("ip link set master", <<vh, config.bridge>>),
          Cmd("ip link set up", <<vh>>),
          Cmd("ip netns exec ip link set lo up", <<ns>>),
          Cmd("ip netns exec ip link set up", <<ns, vn>>),
          Cmd("ip netns exec ip addr add dev", <<ns, cidr, vn>>),
          Cmd("ip netns exec ip route add default via", <<ns, gateway_ip(cidr)>>)>>

\* write_config with the record read again from the store at the write.
write_config_reread(S, vpc_name, config, subnet_name, entry) ==
    Put(S, vpc_name, [S[vpc_name] EXCEPT !.subnets = DictSet(@, subnet_name, entry)])

\* config["subnets"][subnet_name] = {...}; json.dump(config, f)
write_config(S, vpc_name, config, subnet_name, entry) ==
    Put(S, vpc_name, [config EXCEPT !.subnets = DictSet(@, subnet_name, entry)])

RaceLoad(p) ==
    LET a == RaceArgs[p]
        r == load_config(store, a.vpc)
    IN  /\ last[p].pc = "start"
        /\ last' = [last EXCEPT ![p] =
                      IF r.found
                      THEN [@ EXCEPT !.pc = "namespace", !.config = r.config]
                      ELSE [@ EXCEPT !.pc = "done"]]
        /\ earlier' = Append(earlier, <<"read", p>>)
        /\ UNCHANGED <<store, kernel>>

\* if not self.run_cmd(f"ip netns list | grep -q {ns_name}", check=False):
RaceNamespace(p) ==
    LET a == RaceArgs[p]
        ns == ns_name(a.vpc, a.subnet)
        list == Cmd("ip netns list | grep -q", <<ns>>)
        r == run_cmd(kernel, list, FALSE)
        add == IF Truthy(r.ret) THEN <<>> ELSE <<Cmd("ip netns add", <<ns>>)>>
    IN  /\ last[p].pc = "namespace"
        /\ kernel' = r.k
        /\ last' = [last EXCEPT ![p] =
                      [@ EXCEPT !.pc = "commands",
                                !.todo = add \o subnet_cmds(last[p].config, a.vpc,
                                                             a.subnet, a.cidr),
                                !.trace = <<list>>]]
        /\ UNCHANGED <<store, earlier>>

\* self.run_cmd(...), one command
RaceCommand(p) ==
    /\ last[p].pc = "commands"
    /\ last[p].todo # <<>>
    /\ kernel' = run_cmd(kernel, Head(last[p].todo), TRUE).k
    /\ last' = [last EXCEPT ![p] =
                  [@ EXCEPT !.todo = Tail(@), !.trace = Append(@, Head(last[p].todo))]]
    /\ UNCHANGED <<store, earlier>>

RaceWrite(p) ==
    LET a == RaceArgs[p]
        entry == subnet_entry(a.cidr, a.type, ns_name(a.vpc, a.subnet),
                              veth_host(a.subnet), veth_ns(a.subnet))
    IN  /\ last[p].pc = "commands"
        /\ last[p].todo = <<>>
        /\ store' = write_config(store, a.vpc, last[p].config, a.subnet, entry)
        /\ last' = [last EXCEPT ![p] =
                      [@ EXCEPT !.pc = "done", !.result = TRUE,
                                !.trace = Append(@, StoreWrite(a.vpc))]]
        /\ earlier' = Append(earlier, <<"write", p>>)
        /\ UNCHANGED kernel

NextRace ==
    \E p \in Procs :
        \/ RaceLoad(p)
        \/ RaceNamespace(p)
        \/ RaceCommand(p)
        \/ RaceWrite(p)

SpecRace == InitRace /\ [][NextRace]_vars

RaceDone == \A p \in Procs : last[p].pc = "done"

\* Both processes read the record before either wrote it.
BothReadFirst ==
    /\ Len(earlier) = 4
    /\ earlier[1][1] = "read" /\ earlier[2][1] = "read"
    /\ earlier[3][1] = "write" /\ earlier[4][1] = "write"

LastWriter == earlier[Len(earlier)][2]

RaceIssued(p) ==
    LET a == RaceArgs[p]
        cmds == subnet_cmds(last[p].config, a.vpc, a.subnet, a.cidr)
        n == Len(last[p].trace)
    IN  /\ n >= 10
        /\ SubSeq(last[p].trace, n - 8, n - 1) = cmds

\* C16: when two create_subnet processes for two subnets of one VPC have
\* both read the record before either wrote it, then once both are through
\* the record holds the entry of the process that wrote last and no other,
\* while the commands of both subnets were issued and both returned True.
C16_LostUpdate ==
    (RaceDone /\ BothReadFirst) =>
        /\ DictKeys(store["a"].subnets) = <<RaceArgs[LastWriter].subnet>>
        /\ DictGet(store["a"].subnets, RaceArgs[LastWriter].subnet).cidr
              = RaceArgs[LastWriter].cidr
        /\ \A p \in Procs : RaceIssued(p) /\ last[p].result

\* The lost update where the kernel holds the veth pairs of both subnets,
\* each in its namespace, and the record only the subnet db.
C16_Witness ==
    /\ RaceDone /\ BothReadFirst
    /\ LastWriter = 2
    /\ DictKeys(store["a"].subnets) = <<"db">>
    /\ veth_host("web") \in DOMAIN kernel.veths
    /\ kernel.veths[veth_host("web")].loc = ns_name("a", "web")
    /\ veth_host("db") \in DOMAIN kernel.veths
    /\ kernel.veths[veth_host("db")].loc = ns_name("a", "db")
    /\ \A p \in Procs : last[p].result

(***************************************************************************)
(* delete_vpc("a") one statement at a time, killed at most once on the way *)
(* and then run again.  Here last is the running process (its position     *)
(* and local variables) and earlier the position at which the process      *)
(* before it was killed.  A record file opened for writing and not yet     *)
(* written holds no JSON: json.load raises on it.                          *)
(***************************************************************************)
Torn == [torn |-> TRUE]

CrProcess(S) ==
    [pc |-> "start", config |-> Empty, keys |-> <<>>, sub |-> Empty,
     trace |-> <<>>, result |-> FALSE, pre |-> S]

InitCrash ==
    /\ \E bs \in TdBridges, nss \in FwNamespaces :
          /\ store = Provisioned(bs, nss, {}).store
          /\ kernel = Provisioned(bs, nss, {}).k
          /\ last = CrProcess(Provisioned(bs, nss, {}).store)
    /\ earlier = <<>>

\* Lines 67-74: NotFound, or json.load of the record (which raises out of
\* delete_vpc into main's handler when the file holds no JSON).
CrStart ==
    /\ last.pc = "start"
    /\ last' = IF "a" \notin DOMAIN store THEN [last EXCEPT !.pc = "done"]
               ELSE IF store["a"] = Torn THEN [last EXCEPT !.pc = "raised"]
               ELSE [last EXCEPT !.pc = "loop", !.config = store["a"],
                                 !.keys = DictKeys(store["a"].subnets)]
    /\ UNCHANGED <<store, kernel, earlier>>

\* Lines 77-78 and, in delete_subnet, 151-163.
CrLoop ==
    /\ last.pc = "loop"
    /\ last' = IF last.keys = <<>> THEN [last EXCEPT !.pc = "bridge_down"]
               ELSE IF ~DictHas(store["a"].subnets, Head(last.keys))
                    THEN [last EXCEPT !.keys = Tail(@)]
               ELSE [last EXCEPT !.pc = "netns_delete", !.sub = store["a"]]
    /\ UNCHANGED <<store, kernel, earlier>>

\* Line 166.
CrNetnsDelete ==
    LET del == Cmd("ip netns delete",
                   <<DictGet(last.sub.subnets, Head(last.keys)).namespace>>)
    IN  /\ last.pc = "netns_delete"
        /\ kernel' = run_cmd(kernel, del, FALSE).k
        /\ last' = [last EXCEPT !.pc = "open", !.trace = Append(@, del)]
        /\ UNCHANGED <<store, earlier>>

\* Lines 169-171: open(config_file, 'w') empties the file.
CrOpen ==
    /\ last.pc = "open"
    /\ store' = Put(store, "a", Torn)
    /\ last' = [last EXCEPT !.pc = "dump",
                            !.sub = [@ EXCEPT !.subnets = DictDel(@, Head(last.keys))]]
    /\ UNCHANGED <<kernel, earlier>>

\* Lines 172-175: json.dump and close; delete_subnet returns.
CrDump ==
    /\ last.pc = "dump"
    /\ store' = Put(store, "a", last.sub)
    /\ last' = [last EXCEPT !.pc = "loop", !.keys = Tail(@),
                            !.trace = Append(@, StoreWrite("a"))]
    /\ UNCHANGED <<kernel, earlier>>

\* Line 82.
CrBridgeDown ==
    LET down == Cmd("ip link set down", <<last.config.bridge>>)
    IN  /\ last.pc = "bridge_down"
        /\ kernel' = run_cmd(kernel, down, FALSE).k
        /\ last' = [last EXCEPT !.pc = "bridge_delete", !.trace = Append(@, down)]
        /\ UNCHANGED <<store, earlier>>

\* Line 83.
CrBridgeDelete ==
    LET del == Cmd("ip link delete type bridge", <<last.config.bridge>>)
    IN  /\ last.pc = "bridge_delete"
        /\ kernel' = run_cmd(kernel, del, FALSE).k
        /\ last' = [last EXCEPT !.pc = "unlink", !.trace = Append(@, del)]
        /\ UNCHANGED <<store, earlier>>

\* Lines 87-89.
CrUnlink ==
    /\ last.pc = "unlink"
    /\ store' = Remove(store, "a")
    /\ last' = [last EXCEPT !.pc = "done", !.result = TRUE,
                            !.trace = Append(@, StoreUnlink("a"))]
    /\ UNCHANGED <<kernel, earlier>>

\* The process is killed before its next statement; delete-vpc a is run
\* again.
Crash ==
    /\ earlier = <<>>
    /\ last.pc \notin {"start", "done", "raised"}
    /\ earlier' = <<last.pc>>
    /\ last' = CrProcess(store)
    /\ UNCHANGED <<store, kernel>>

NextCrash ==
    \/ CrStart
    \/ CrLoop
    \/ CrNetnsDelete
    \/ CrOpen
    \/ CrDump
    \/ CrBridgeDown
    \/ CrBridgeDelete
    \/ CrUnlink
    \/ Crash

SpecCrash == InitCrash /\ [][NextCrash]_vars

Range(s) == {s[i] : i \in 1..Len(s)}

CrOver == last.pc \in {"done", "raised"}

\* What a delete_vpc run again after a kill has to have done at its end.
CrRecovered ==
    /\ last.result
    /\ "a" \notin DOMAIN store
    /\ \A ns \in NamespacesOf(last.pre["a"]) :
          Cmd("ip netns delete", <<ns>>) \in Range(last.trace)
    /\ Cmd("ip link set down", <<bridge_name("a")>>) \in Range(last.trace)
    /\ Cmd("ip link delete type bridge", <<bridge_name("a")>>) \in Range(last.trace)

\* C17: while delete_vpc runs and until its last statement the file of the
\* VPC's record is in the store, and a delete_vpc run after the first was killed
\* at any statement finds the record, issues the deletion of every subnet
\* still in it and of the bridge, removes the record and returns True.
C17_DeleteVpcRecoverable ==
    /\ ~CrOver => "a" \in DOMAIN store
    /\ (earlier # <<>> /\ CrOver) => CrRecovered

\* The second run does all that when the first was killed anywhere but
\* between the open and the dump of the record.
RecoverableOutsideWrite ==
    (earlier # <<>> /\ earlier # <<"dump">> /\ CrOver) => CrRecovered

\* The subnets of the VPCs other than the one the last call named, as the
\* store had them when the call began.
OtherEntries ==
    UNION {{Pre.store[v].subnets[i].val : i \in 1..Len(Pre.store[v].subnets)} :
           v \in DOMAIN Pre.store \ {last.vpc}}

\* C20: create_subnet and delete_subnet on one VPC leave the kernel
\* objects of the subnets of every other VPC as they were: such a subnet's
\* namespace stays with its table and route, and the veth pair whose inner
\* end is in that namespace stays, the inner end in the namespace and the
\* host end on the bridge it was attached to.
C20_OtherVpcUntouched ==
    (last.op \in {"create_subnet", "delete_subnet"}) =>
        \A e \in OtherEntries :
            e.namespace \in DOMAIN Pre.k.netns =>
                /\ e.namespace \in DOMAIN kernel.netns
                /\ kernel.netns[e.namespace] = Pre.k.netns[e.namespace]
                /\ \A h \in DOMAIN Pre.k.veths :
                      Pre.k.veths[h].loc = e.namespace =>
                          /\ h \in DOMAIN kernel.veths
                          /\ kernel.veths[h] = Pre.k.veths[h]

====
